---- MODULE Spec2Model ----
(***************************************************************************)
(* The item-lifecycle driver of HakuFront (the NFTSection component,       *)
(* src/unnamed/part_004) as a state machine.  A step is one event the      *)
(* browser delivers to the component (a click, a wallet answer, a receipt, *)
(* a push message, a fetch answer, a timer) together with the React        *)
(* effects that the event's state changes trigger.                         *)
(***************************************************************************)
EXTENDS Integers, FiniteSets, Sequences, TLC

\* ---------------------------------------------------------------- bounds

NumItems == 2
MaxRollbackCalls == 2
MaxPollFetches == 2
ExtraItems == 1
MaxSockets == 7
MaxLiveSockets == 4
NumConnectors == 2
MaxInstances == 3

\* tokens HukuNFT mints, HakuToken each user starts with, and the highest
\* mint price the owner sets
MaxTokens == 2

UserFunds == 2

MaxPrice == 2

\* tokens SimpleAirdrop is funded with, and the highest limit its owner sets
AirdropFunds == 6

MaxLimit == 5

\* ------------------------------------------------------------- constants

\* useState<number | null>(null): the empty slot.  Item ids are positive, so
\* 0 is also the only falsy id for the code's `mintingNftId &&` tests.
NULL == 0
\* const maxRetries = 60
maxRetries == 60
\* the conversion price read from the ledger (mintPrice), in price units
mintPrice == 2

\* SWAP_CONFIG.DEFAULT_SLIPPAGE_TOLERANCE: 1 %, in thousandths of a percent
DEFAULT_SLIPPAGE_TOLERANCE == 1000

\* const safetyBufferBasisPoints = 100n
safetyBufferBasisPoints == 100
\* useWebSocket: maxRetries = 5 (the component passes none)
socketMaxRetries == 5
\* useWebSocket: reconnectInterval = 3000
reconnectInterval == 3000
\* useWebSocket: the 30000 in Math.min(..., 30000)
maxBackoff == 30000

Items == 1..NumItems
\* the items of the collection, the holder's Items among them
AllItems == 1..(NumItems + ExtraItems)
NoAddress == "none"
Addresses == {"a1", "a2"}

\* ------------------------------------------------------------------ data

\* interface NFT: nft_id, all_chips_owned, is_mint (0 not requested, 1 in
\* progress, 2 minted).  The backend reports is_mint > 0 only for a complete
\* item, and a token_id exactly with is_mint = 2.
NFTOf(i) ==
    { [nft_id |-> i, is_mint |-> 0, all_chips_owned |-> FALSE],
      [nft_id |-> i, is_mint |-> 0, all_chips_owned |-> TRUE],
      [nft_id |-> i, is_mint |-> 1, all_chips_owned |-> TRUE],
      [nft_id |-> i, is_mint |-> 2, all_chips_owned |-> TRUE] }

AllNFT == UNION { NFTOf(i) : i \in AllItems }

\* NFT[]: an item list holds an id at most once.
NFTLists == { l \in SUBSET AllNFT : \A a, b \in l : a.nft_id = b.nft_id => a = b }

\* NFTQueryResponse bodies: `nfts` may be missing from the body.
Payloads == { [has |-> FALSE, nfts |-> {}] } \cup { [has |-> TRUE, nfts |-> l] : l \in NFTLists }

\* What a fetch of /api/query-mint can come back with.
Responses == { [kind |-> "notOk", has |-> FALSE, nfts |-> {}],
               [kind |-> "throw", has |-> FALSE, nfts |-> {}] }
             \cup { [kind |-> "ok", has |-> p.has, nfts |-> p.nfts] : p \in Payloads }

\* Eligible: all units collected and is_mint = 0 (canMint).
Eligible(n) == n.all_chips_owned /\ n.is_mint = 0

EligibleIds(l) == { n.nft_id : n \in { m \in l : Eligible(m) } }

Has(l, i) == \E n \in l : n.nft_id = i

\* nfts.find(n => n.nft_id === id)
Find(l, i) == CHOOSE n \in l : n.nft_id = i

\* --------------------------------------------------- the eligibility check

\* Strings are sequences of characters.
DigitChars == <<"0", "1", "2", "3", "4", "5", "6", "7", "8", "9">>

IsDigit(c) == \E k \in 1..10 : DigitChars[k] = c

DigitValue(c) == (CHOOSE k \in 1..10 : DigitChars[k] = c) - 1

\* what parseInt gives for a string that does not start with a digit
NaN == -1

\* the length of the longest prefix of s made of digits
LeadingDigits(s) ==
    IF \A k \in 1..Len(s) : IsDigit(s[k]) THEN Len(s)
    ELSE (CHOOSE k \in 1..Len(s) :
              ~IsDigit(s[k]) /\ \A j \in 1..(k - 1) : IsDigit(s[j])) - 1

RECURSIVE DecimalValue(_, _)
DecimalValue(s, n) ==
    IF n = 0 THEN 0 ELSE 10 * DecimalValue(s, n - 1) + DigitValue(s[n])

\* parseInt(s), for s without leading blanks or sign
ParseInt(s) ==
    IF LeadingDigits(s) = 0 THEN NaN ELSE DecimalValue(s, LeadingDigits(s))

PngSuffix == <<".", "p", "n", "g">>

\* s.replace('.png', ''): the first occurrence is removed
ReplacePng(s) ==
    LET at == { k \in 1..Len(s) :
                  k + 3 <= Len(s) /\ SubSeq(s, k, k + 3) = PngSuffix }
    IN  IF at = {} THEN s
        ELSE LET k == CHOOSE j \in at : \A m \in at : j <= m
             IN  SubSeq(s, 1, k - 1) \o SubSeq(s, k + 4, Len(s))

\* nft_id.toString()
RECURSIVE toString(_)
toString(i) ==
    IF i < 10 THEN <<DigitChars[i + 1]>>
    ELSE toString(i \div 10) \o <<DigitChars[(i % 10) + 1]>>

\* interface MintEligibilityResponse: eligible, token_id?, uint256_param?,
\* as the answer of fetch('/api/verify-mint-eligibility').  kind: "throw" (the
\* fetch rejects), "notOk" (!verifyResponse.ok), "ok".
VerifyResponse(k, e, hp, pv, ht, tv) ==
    [kind |-> k, eligible |-> e, hasParam |-> hp, uint256_param |-> pv,
     hasToken |-> ht, token_id |-> tv]

Unavailable == VerifyResponse("notOk", FALSE, FALSE, 0, FALSE, <<>>)

Unreachable == VerifyResponse("throw", FALSE, FALSE, 0, FALSE, <<>>)

Ineligible == VerifyResponse("ok", FALSE, FALSE, 0, FALSE, <<>>)

\* the answer for an eligible item: both parameters present
Granted == VerifyResponse("ok", TRUE, TRUE, 7, TRUE, <<"7", ".", "p", "n", "g">>)

\* an eligible answer whose token_id is not numeric and has no uint256_param
Unparsable == VerifyResponse("ok", TRUE, FALSE, 0, TRUE, <<"x">>)

TokenIds == { <<>>, <<"7", ".", "p", "n", "g">>, <<"8", ".", "p", "n", "g">>, <<"x">> }

VerifyResponses ==
    { Unavailable, Unreachable, Ineligible }
    \cup { VerifyResponse("ok", TRUE, TRUE, pv, FALSE, <<>>) : pv \in {0, 7} }
    \cup { VerifyResponse("ok", TRUE, FALSE, 0, FALSE, <<>>) }
    \cup { VerifyResponse("ok", TRUE, TRUE, pv, TRUE, tv) : pv \in {0, 7}, tv \in TokenIds }
    \cup { VerifyResponse("ok", TRUE, FALSE, 0, TRUE, tv) : tv \in TokenIds }

\* if (!verifyResponse.ok) throw
ResponseOk(r) == r.kind = "ok"

\* A test that takes every answer for eligible.
IsEligibleUnchecked(r) == TRUE

\* if (!verifyData.eligible) { ...; return }
IsEligible(r) == r.eligible

\* const tokenIdNum = verifyData.uint256_param ||
\*   (verifyData.token_id ? parseInt(verifyData.token_id.replace('.png', '')) : 0)
TokenIdNum(r) ==
    IF r.hasParam /\ r.uint256_param # 0 THEN r.uint256_param
    ELSE IF r.hasToken /\ r.token_id # <<>> THEN ParseInt(ReplacePng(r.token_id))
         ELSE 0

\* const remark = verifyData.token_id || nft.nft_id.toString()
Remark(r, i) ==
    IF r.hasToken /\ r.token_id # <<>> THEN r.token_id ELSE toString(i)

\* ------------------------------------------------ the authorization record

\* A filter that drops only the ids missing from the list.
ReconcilePresent(prev, l) == { n.nft_id : n \in { m \in l : m.nft_id \in prev } }

\* A filter that keeps nothing.
ReconcileEmptying(prev, l) == {}

\* A filter that also inserts every is_mint = 0 id of the list.
ReconcileInserting(prev, l) == { n.nft_id : n \in { m \in l : m.is_mint = 0 } }

\* setApprovedNftIds(prev => { newSet = {}; list.forEach(nft =>
\*   if (nft.is_mint === 0 && prev.has(nft.nft_id)) newSet.add(nft.nft_id)) })
Reconcile(prev, l) == { n.nft_id : n \in { m \in l : m.is_mint = 0 /\ m.nft_id \in prev } }

\* ----------------------------------------------------------------- state

VARIABLES
    address,                  \* useAccount().address, or NoAddress
    wsStatus,                 \* useWebSocket().status
    nfts,                     \* useState<NFT[]>
    approvedNftIds,           \* useState<Set<number>>: the authorization record
    mintingNftId,             \* the Convert slot
    approvingNftId,           \* the Authorize slot
    burningNftId,             \* the Reclaim slot
    revokingNftId,            \* the revoke slot
    write,                    \* useWriteContract + receipt of the safeMint request
    approve,                  \* useWriteContract + receipt of the approve request
    revoke,                   \* useWriteContract + receipt of the approve(0) request
    burn,                     \* useWriteContract + receipt of the userBurn request
    timeoutRef,               \* the pending 30 s timer: the id its callback closed over
    timeoutCb,                \* a fired timer callback awaiting its rollback fetch
    poll,                     \* the polling effect instance: interval, closure id, retryCount
    pollFetch,                \* a fetchNFTs of the live instance is in flight
    staleFetch,               \* closure ids of fetchNFTs calls in flight from cleaned-up instances
    associatedTransfer,       \* useEventAssociation: "null", "fetching", "set"
    burnFetch,                \* the post-burn refresh fetch is in flight
    hasRequestedInitialData,  \* hasRequestedInitialDataRef.current
    initialFetch,             \* fetchInitialNFTs is in flight
    mintClick,                \* the Mint NFT click handler: where it is suspended, and its nft
    allowance,                \* the ledger: HakuToken allowance of the holder to HukuNFT
    allowanceData,            \* useReadContract(allowance).data: the last value read
    request,                  \* history: the safeMint request made last, its arguments
                              \*   and the eligibility answer it was built from
    ws,                       \* the useWebSocket instance: refs, status and its sockets
    action,                   \* history: the Convert started last: its item, how far it got,
                              \*   and the POSTs to /api/mint-failed made for its item since
    lastSnapshot,             \* history: the most recently applied authoritative snapshot
                              \*   and the record it was applied to
    chain,                    \* the useWalletChainId instance, the wallet it reads and the
                              \*   instances of its effect
    swap,                     \* the Swap form: tolerance, quote, and the swap submitted last
    huku,                     \* the HukuNFT contract and the HakuToken balances
    simpleAirdrop             \* the SimpleAirdrop contract and its token balance

vars == << address, wsStatus, nfts, approvedNftIds, mintingNftId, approvingNftId,
           burningNftId, revokingNftId, write, approve, revoke, burn, timeoutRef,
           timeoutCb, poll, pollFetch, staleFetch, associatedTransfer, burnFetch,
           hasRequestedInitialData, initialFetch, mintClick, allowance,
           allowanceData, request, ws, action, lastSnapshot, chain, swap, huku,
           simpleAirdrop >>

\* the state of the NFTSection component
component == << address, wsStatus, nfts, approvedNftIds, mintingNftId, approvingNftId,
                burningNftId, revokingNftId, write, approve, revoke, burn, timeoutRef,
                timeoutCb, poll, pollFetch, staleFetch, associatedTransfer, burnFetch,
                hasRequestedInitialData, initialFetch, mintClick, allowance,
                allowanceData, request, action, lastSnapshot >>

\* the state of the Swap form and of the contracts
contracts == << swap, huku, simpleAirdrop >>

\* The component's state as one value: what a render sees.
Cur ==
    [ address |-> address, wsStatus |-> wsStatus, nfts |-> nfts,
      approvedNftIds |-> approvedNftIds, mintingNftId |-> mintingNftId,
      approvingNftId |-> approvingNftId, burningNftId |-> burningNftId,
      revokingNftId |-> revokingNftId, write |-> write, approve |-> approve,
      revoke |-> revoke, burn |-> burn, timeoutRef |-> timeoutRef,
      timeoutCb |-> timeoutCb, poll |-> poll, pollFetch |-> pollFetch,
      staleFetch |-> staleFetch, associatedTransfer |-> associatedTransfer,
      burnFetch |-> burnFetch, hasRequestedInitialData |-> hasRequestedInitialData,
      initialFetch |-> initialFetch, mintClick |-> mintClick, allowance |-> allowance,
      allowanceData |-> allowanceData, request |-> request, ws |-> ws,
      action |-> action, lastSnapshot |-> lastSnapshot ]

Commit(s) ==
    /\ address' = s.address
    /\ wsStatus' = s.wsStatus
    /\ nfts' = s.nfts
    /\ approvedNftIds' = s.approvedNftIds
    /\ mintingNftId' = s.mintingNftId
    /\ approvingNftId' = s.approvingNftId
    /\ burningNftId' = s.burningNftId
    /\ revokingNftId' = s.revokingNftId
    /\ write' = s.write
    /\ approve' = s.approve
    /\ revoke' = s.revoke
    /\ burn' = s.burn
    /\ timeoutRef' = s.timeoutRef
    /\ timeoutCb' = s.timeoutCb
    /\ poll' = s.poll
    /\ pollFetch' = s.pollFetch
    /\ staleFetch' = s.staleFetch
    /\ associatedTransfer' = s.associatedTransfer
    /\ burnFetch' = s.burnFetch
    /\ hasRequestedInitialData' = s.hasRequestedInitialData
    /\ initialFetch' = s.initialFetch
    /\ mintClick' = s.mintClick
    /\ allowance' = s.allowance
    /\ allowanceData' = s.allowanceData
    /\ request' = s.request
    /\ ws' = s.ws
    /\ action' = s.action
    /\ lastSnapshot' = s.lastSnapshot
    /\ UNCHANGED <<chain, contracts>>

\* ------------------------------------------------------------ wagmi hooks

\* useWriteContract() with useWaitForTransactionReceipt({ hash })
IdleHook == [status |-> "idle", receipt |-> "none"]

\* writeContract(...): the mutation restarts, data (hash) and error are reset
PendingHook == [status |-> "pending", receipt |-> "none"]

\* data: hash
Hash(h) == h.status = "success"

\* isPending
IsPending(h) == h.status = "pending"

\* error
HasError(h) == h.status = "error"

\* useWaitForTransactionReceipt: isLoading
IsConfirming(h) == h.status = "success" /\ h.receipt = "none"

\* useWaitForTransactionReceipt: isSuccess
IsConfirmed(h) == h.status = "success" /\ h.receipt = "confirmed"

NoPoll == [active |-> FALSE, id |-> NULL, retryCount |-> 0, fetches |-> 0]

NoClick == [pc |-> "idle", nft |-> NULL]

\* data of a query that has not succeeded yet: undefined
Unread == -1

NoRequest == [sent |-> FALSE, nft |-> NULL, remark |-> <<>>, tokenURL |-> 0,
              verify |-> Unavailable]

NoSnapshot == [seq |-> 0, nfts |-> {}, prior |-> {}]

Min(a, b) == IF a < b THEN a ELSE b

\* history of the Convert started last.  phase: "verifying" (mintingNftId set,
\* eligibility being checked), "unverified" (the check failed), "signing"
\* (writeContract called), "submitted" (hash), "confirmed", "observed" (a poll
\* saw the item minted), and the failed
\* endings "timeout", "rejected", "reverted".  read: the allowance the click
\* handler went on with, if its read succeeded.  answer: what the eligibility
\* check came back with.
NoAction == [nft |-> NULL, phase |-> "none", rollbacks |-> 0, read |-> Unread,
             answer |-> "none"]

\* the action moves on, if it is in phase `from`
Advance(a, from, to) ==
    IF a.action.phase = from THEN [a EXCEPT !.action.phase = to] ELSE a

\* fetch('/api/mint-failed', { nft_id: i }): one more call for item i
Rollback(a, i) ==
    IF i = a.action.nft
    THEN [a EXCEPT !.action.rollbacks = Min(@ + 1, MaxRollbackCalls)]
    ELSE a

\* ---------------------------------------------------------------- effects
\* An effect takes the render it runs in (s), the render before it (p, for
\* its dependency list) and the state its updates accumulate in (a).

\* markGranted: newSet = new Set([...prev]); newSet.add(nftIdToApprove)
MarkGranted(prev, i) == prev \cup {i}

\* A delete that empties the record.
ClearAll(prev, i) == {}

\* newSet = new Set(prev); newSet.delete(id)
Clear(prev, i) == prev \ {i}

\* useEffect(..., [burnError, burningNftId])
BurnErrorEffect(s, a) ==
    IF HasError(s.burn) /\ s.burningNftId # NULL
    THEN [a EXCEPT !.burningNftId = NULL]
    ELSE a

\* useEffect(..., [isApproveConfirmed, approvingNftId, nfts.length])
ApproveConfirmedEffect(s, a) ==
    IF IsConfirmed(s.approve) /\ s.approvingNftId # NULL
    THEN [a EXCEPT !.approvedNftIds = MarkGranted(@, s.approvingNftId),
                   !.approvingNftId = NULL]
    ELSE a

\* useEffect(..., [isRevokeConfirmed, revokingNftId, refetchAllowance])
RevokeConfirmedEffect(s, a) ==
    IF IsConfirmed(s.revoke) /\ s.revokingNftId # NULL
    THEN [a EXCEPT !.approvedNftIds = Clear(@, s.revokingNftId),
                   !.revokingNftId = NULL]
    ELSE a

\* useEffect(..., [wsStatus, address]): the initial fetch
InitialFetchEffect(p, s, a) ==
    IF <<p.wsStatus, p.address>> = <<s.wsStatus, s.address>> THEN a
    ELSE IF s.address = NoAddress
         THEN [a EXCEPT !.nfts = {}, !.hasRequestedInitialData = FALSE]
         ELSE IF s.wsStatus = "connected" /\ ~a.hasRequestedInitialData
              THEN [a EXCEPT !.hasRequestedInitialData = TRUE, !.initialFetch = TRUE]
              ELSE a

\* useEffect(..., [hash, mintingNftId]): clear the timer once a hash is there
HashReceivedEffect(p, s, a) ==
    IF <<Hash(p.write), p.mintingNftId>> = <<Hash(s.write), s.mintingNftId>> THEN a
    ELSE IF Hash(s.write) /\ s.mintingNftId # NULL
         THEN [a EXCEPT !.timeoutRef = NULL]
         ELSE a

TimeoutDeps(x) == <<IsPending(x.write), x.mintingNftId, Hash(x.write), x.address>>

\* useEffect(..., [isWritePending, mintingNftId, hash, address]): its cleanup
\* clears the timer, its body sets a new one closing over mintingNftId
WalletTimeoutEffect(p, s, a) ==
    IF TimeoutDeps(p) = TimeoutDeps(s) THEN a
    ELSE IF IsPending(s.write) /\ s.mintingNftId # NULL /\ ~Hash(s.write)
         THEN [a EXCEPT !.timeoutRef = s.mintingNftId]
         ELSE [a EXCEPT !.timeoutRef = NULL]

\* useEventAssociation(hash, isConfirmed): useEffect(..., [txHash, enabled])
AssociationEffect(p, s, a) ==
    IF <<Hash(p.write), IsConfirmed(p.write)>> = <<Hash(s.write), IsConfirmed(s.write)>> THEN a
    ELSE IF ~Hash(s.write) \/ ~IsConfirmed(s.write)
         THEN [a EXCEPT !.associatedTransfer = "null"]
         ELSE [a EXCEPT !.associatedTransfer = "fetching"]

PollDeps(x) ==
    <<IsConfirmed(x.write), x.mintingNftId, x.address, x.associatedTransfer = "set">>

\* useEffect(..., [isConfirmed, mintingNftId, address, associatedTransfer]):
\* its cleanup clears the interval (a fetch in flight still completes), its
\* body starts a new instance with retryCount = 0 and fetches at once
PollingEffect(p, s, a) ==
    IF PollDeps(p) = PollDeps(s) THEN a
    ELSE LET stale == IF a.pollFetch THEN a.staleFetch \cup {a.poll.id} ELSE a.staleFetch
         IN  IF IsConfirmed(s.write) /\ s.mintingNftId # NULL /\ s.address # NoAddress
             THEN [a EXCEPT !.poll = [active |-> TRUE, id |-> s.mintingNftId,
                                      retryCount |-> 0, fetches |-> 1],
                            !.pollFetch = TRUE, !.staleFetch = stale]
             ELSE [a EXCEPT !.poll = NoPoll, !.pollFetch = FALSE, !.staleFetch = stale]

\* useEffect(..., [isBurnConfirmed, burningNftId, address]): one refresh fetch
BurnConfirmedEffect(p, s, a) ==
    IF <<IsConfirmed(p.burn), p.burningNftId, p.address>>
         = <<IsConfirmed(s.burn), s.burningNftId, s.address>> THEN a
    ELSE IF IsConfirmed(s.burn) /\ s.burningNftId # NULL /\ s.address # NoAddress
         THEN [a EXCEPT !.burnFetch = TRUE]
         ELSE a

\* useEffect(..., [writeError, mintingNftId, address]): notifyMintFailed()
\* with nft_id: mintingNftId, then setMintingNftId(null)
WriteErrorEffect(s, a) ==
    IF HasError(s.write) /\ s.mintingNftId # NULL /\ s.address # NoAddress
    THEN [Rollback(a, s.mintingNftId) EXCEPT !.mintingNftId = NULL]
    ELSE a

\* useEffect(..., [address]): clear all states when there is no address
AddressChangeEffect(p, s, a) ==
    IF p.address # s.address /\ s.address = NoAddress
    THEN [a EXCEPT !.nfts = {}, !.approvedNftIds = {}, !.mintingNftId = NULL,
                   !.approvingNftId = NULL, !.burningNftId = NULL]
    ELSE a

\* One commit: the effects whose dependencies changed, in declaration order.
Pass(p, s) ==
    LET a1 == BurnErrorEffect(s, s)
        a2 == ApproveConfirmedEffect(s, a1)
        a3 == RevokeConfirmedEffect(s, a2)
        a4 == InitialFetchEffect(p, s, a3)
        a5 == HashReceivedEffect(p, s, a4)
        a6 == WalletTimeoutEffect(p, s, a5)
        a7 == AssociationEffect(p, s, a6)
        a8 == PollingEffect(p, s, a7)
        a9 == BurnConfirmedEffect(p, s, a8)
        a10 == WriteErrorEffect(s, a9)
    IN  AddressChangeEffect(p, s, a10)

\* The renders an event causes: effects set state, which renders again.
Effects(p, s) ==
    LET s1 == Pass(p, s)
    IN  IF s1 = s THEN s
        ELSE LET s2 == Pass(s, s1)
             IN  IF s2 = s1 THEN s1 ELSE Pass(s1, s2)

\* An event: the handler's updates (s), then the effects, then the commit.
Do(s) == Commit(Effects(Cur, s))

\* ------------------------------------------------------------ useWebSocket
\* The hook's refs and state, and every WebSocket it has created.  A socket is
\* "connecting", "open", "closing" (closed by the code or failed, its close
\* event not delivered yet) or "closed" (onclose has run).  A socket carries
\* the `enabled` its handlers closed over, and the reconnect timer its
\* onclose has set: "pending", "fired" or "cleared", with its delay.

NoSocket == [state |-> "unused", enabled |-> FALSE, timer |-> "none", delay |-> 0]

\* stopped (history): disconnect() has returned and neither the effect nor
\* reconnect() has called connect() since
\* reconnects (history): the parity of the number of reconnect() calls
\* heard (history): the header of the envelope that onmessage handed to the
\* consumer last
InitHook ==
    [enabled |-> FALSE, status |-> "disconnected", wsRef |-> 0,
     reconnectTimeoutRef |-> 0, retryCountRef |-> 0, next |-> 1,
     sockets |-> [k \in 1..MaxSockets |-> NoSocket], stopped |-> FALSE,
     reconnects |-> 0,
     heard |-> [type |-> "none", data |-> FALSE, user_address |-> "none"]]

\* ws.close(): the close event follows later
CloseSocket(h, k) ==
    IF k # 0 /\ h.sockets[k].state \in {"connecting", "open"}
    THEN [h EXCEPT !.sockets[k].state = "closing"]
    ELSE h

\* if (reconnectTimeoutRef.current) clearTimeout(reconnectTimeoutRef.current)
ClearReconnectTimeout(h) ==
    IF h.reconnectTimeoutRef # 0 /\ h.sockets[h.reconnectTimeoutRef].timer = "pending"
    THEN [h EXCEPT !.sockets[h.reconnectTimeoutRef].timer = "cleared"]
    ELSE h

\* a connect() that leaves a live socket alone
connectUnlessLive(h, en) ==
    IF ~en \/ (h.wsRef # 0 /\ h.sockets[h.wsRef].state \in {"connecting", "open"})
    THEN h
    ELSE LET a == ClearReconnectTimeout(h)
         IN  [a EXCEPT !.status = "connecting",
                       !.sockets[a.next] = [NoSocket EXCEPT !.state = "connecting",
                                                            !.enabled = en],
                       !.wsRef = a.next,
                       !.next = a.next + 1]

\* connect(), of a render in which `enabled` was en
connect(h, en) ==
    IF ~en THEN h
    ELSE LET a == ClearReconnectTimeout(CloseSocket(h, h.wsRef))
         IN  [a EXCEPT !.status = "connecting",
                       !.sockets[a.next] = [NoSocket EXCEPT !.state = "connecting",
                                                            !.enabled = en],
                       !.wsRef = a.next,
                       !.next = a.next + 1]

\* disconnect()
disconnect(h) ==
    LET a == ClearReconnectTimeout(h)
        b == CloseSocket(a, a.wsRef)
    IN  [b EXCEPT !.wsRef = 0, !.status = "disconnected", !.retryCountRef = 0]

\* ws.onopen
onopen(h, k) ==
    [h EXCEPT !.sockets[k].state = "open", !.status = "connected", !.retryCountRef = 0]

\* ws.onerror; the browser closes the socket after it
onerror(h, k) ==
    [h EXCEPT !.sockets[k].state = "closing", !.status = "error"]

\* Math.min(baseDelay * Math.pow(2, retryCountRef.current), 30000)
backoffTime(retryCount) ==
    LET baseDelay == IF reconnectInterval > 0 THEN reconnectInterval ELSE 1000
    IN  Min(baseDelay * 2 ^ retryCount, maxBackoff)

\* ws.onclose of socket k
onclose(h, k) ==
    LET a == [h EXCEPT !.sockets[k].state = "closed", !.status = "disconnected",
                       !.wsRef = 0]
    IN  IF a.sockets[k].enabled /\ a.retryCountRef < socketMaxRetries
        THEN [a EXCEPT !.retryCountRef = @ + 1,
                       !.sockets[k].timer = "pending",
                       !.sockets[k].delay = backoffTime(a.retryCountRef),
                       !.reconnectTimeoutRef = k]
        ELSE a

\* ------------------------------------------------------- snapshot handling

\* history: the list applied, the record it was applied to, and the parity of
\* the number of snapshots applied so far
Snapshot(a, l) ==
    [seq |-> (a.lastSnapshot.seq + 1) % 2, nfts |-> l, prior |-> a.approvedNftIds]

\* onMessage / fetchInitialNFTs: if (nfts && nfts.length > 0) { setNfts(nfts);
\* setApprovedNftIds(filter) } else { setNfts([]); setApprovedNftIds(new Set()) }
ApplyListOrEmpty(a, r) ==
    IF r.has /\ r.nfts # {}
    THEN [a EXCEPT !.nfts = r.nfts,
                   !.approvedNftIds = Reconcile(@, r.nfts),
                   !.lastSnapshot = Snapshot(a, r.nfts)]
    ELSE [a EXCEPT !.nfts = {}, !.approvedNftIds = {},
                   !.lastSnapshot = Snapshot(a, {})]

\* fetchNFTs: if (result.nfts) { setNfts(result.nfts); setApprovedNftIds(filter) }
ApplyList(a, r) ==
    [a EXCEPT !.nfts = r.nfts,
              !.approvedNftIds = Reconcile(@, r.nfts),
              !.lastSnapshot = Snapshot(a, r.nfts)]

\* retryCount++ and, at maxRetries, clearInterval(pollingInterval); `live`
\* says whether the fetch belongs to the instance the state still holds
CountRetry(a, live) ==
    IF live
    THEN [a EXCEPT !.poll.retryCount = @ + 1,
                   !.poll.active = @ /\ a.poll.retryCount + 1 < maxRetries]
    ELSE a

\* A completion that removes the id from the record and nothing else.
MintCompletedKeepsPolling(a, i, live) ==
    [(IF i = a.action.nft THEN Advance(a, "confirmed", "observed") ELSE a)
       EXCEPT !.approvedNftIds = Clear(@, i)]

\* if (currentNft.is_mint === 2): setMintingNftId(null), delete the id,
\* clearInterval(pollingInterval)
MintCompleted(a, i, live) ==
    [(IF i = a.action.nft THEN Advance(a, "confirmed", "observed") ELSE a)
       EXCEPT !.mintingNftId = NULL,
              !.approvedNftIds = Clear(@, i),
              !.poll.active = @ /\ ~live]

\* fetchNFTs of the polling effect, from `const res = await fetch(apiUrl)` on;
\* i is the mintingNftId the instance closed over
FetchNFTs(a, i, r, live) ==
    IF r.kind = "throw" THEN CountRetry(a, live)
    ELSE IF r.kind = "ok" /\ r.has
    THEN LET b == ApplyList(a, r)
         IN  IF ~Has(r.nfts, i) THEN b
             ELSE IF Find(r.nfts, i).is_mint = 2
                  THEN MintCompleted(b, i, live)
                  ELSE IF Find(r.nfts, i).is_mint = 1
                       THEN CountRetry(b, live)
                       ELSE b
    ELSE a

\* fetchNFTs of the burn-confirmed effect
BurnRefresh(a, r) ==
    IF r.kind = "ok" /\ r.has
    THEN [ApplyList(a, r) EXCEPT !.burningNftId = NULL]
    ELSE a

\* fetchInitialNFTs, from `const response = await fetch(apiUrl)` on
InitialNFTs(a, r) ==
    IF r.kind = "ok"
    THEN ApplyListOrEmpty(a, r)
    ELSE [a EXCEPT !.nfts = {}]

\* Push envelopes: { type, data: { user_address, nfts } }.  data says whether
\* the envelope has a data member.  Messages are the updates addressed to the
\* holder a1.
Messages ==
    { [type |-> "NFTUpdate", data |-> TRUE, user_address |-> "a1", has |-> p.has, nfts |-> p.nfts] :
        p \in { q \in Payloads : \A n \in q.nfts : n.nft_id \in Items } }
    \cup { [type |-> "NFTUpdate", data |-> TRUE, user_address |-> "a1", has |-> TRUE, nfts |-> l] :
             l \in { k \in NFTLists : /\ Cardinality(k) = Cardinality(AllItems)
                                       /\ \A n \in k : n.all_chips_owned } }

\* Other envelopes the server sends on the same socket: updates for another
\* holder, updates that spell the holder with capitals, the broadcast that
\* Banner consumes, and an update without data.  Each update shows item 1 as
\* minted.
OtherEnvelopes ==
    { [type |-> "NFTUpdate", data |-> TRUE, user_address |-> u, has |-> TRUE, nfts |-> l] :
        u \in {"a2", "A1"},
        l \in { k \in NFTLists : \A n \in k : n.nft_id = 1 /\ n.is_mint = 2 } }
    \cup { [type |-> "LatestMintedNFTs", data |-> TRUE, user_address |-> "a1", has |-> TRUE, nfts |-> l] :
             l \in { k \in NFTLists : \A n \in k : n.nft_id = 1 /\ n.is_mint = 2 } }
    \cup { [type |-> "NFTUpdate", data |-> FALSE, user_address |-> NoAddress, has |-> FALSE, nfts |-> {}] }

\* String.prototype.toLowerCase, on the spellings of the holders
toLowerCase(u) ==
    IF u = "A1" THEN "a1" ELSE IF u = "A2" THEN "a2" ELSE u

\* history: the header of an envelope
Header(m) == [type |-> m.type, data |-> m.data, user_address |-> m.user_address]

\* an onMessage that applies the updates of every holder
HandleMessageOfAnyHolder(a, m) ==
    LET b == [a EXCEPT !.ws.heard = Header(m)]
    IN  IF m.type = "NFTUpdate" /\ m.data /\ a.address # NoAddress
        THEN ApplyListOrEmpty(b, m)
        ELSE b

\* useWebSocket({ onMessage }): message.type === 'NFTUpdate' && message.data,
\* then address && user_address.toLowerCase() === address.toLowerCase()
HandleMessage(a, m) ==
    LET b == [a EXCEPT !.ws.heard = Header(m)]
    IN  IF /\ m.type = "NFTUpdate" /\ m.data
           /\ a.address # NoAddress
           /\ toLowerCase(m.user_address) = toLowerCase(a.address)
        THEN ApplyListOrEmpty(b, m)
        ELSE b

\* -------------------------------------------------------- useWalletChainId
\* The hook's state and refs, the wallet it reads, and the instances of its
\* effect.  Connectors are 1..NumConnectors, each with a provider of its own;
\* 0 stands for undefined / null.  An effect instance is "getProvider"
\* (awaiting getCorrectProvider), "request" (awaiting the initial
\* eth_chainId), "done" or "failed"; req is the request pollChainId or
\* handleAccountsChanged has in flight, with the provider it was sent to.

\* the chain ids a provider reports, as the hex strings of eth_chainId
ChainHex == {"0x1", "0x38"}

\* parseInt(hexChainId, 16)
parseInt16(hex) ==
    CASE hex = "0x1" -> 1
      [] hex = "0x38" -> 56
      [] OTHER -> NaN

NoInstance ==
    [state |-> "unused", connector |-> 0, isMounted |-> FALSE, pollInterval |-> FALSE,
     listening |-> 0, req |-> "none", reqProvider |-> 0]

InitChain ==
    [isConnected |-> FALSE, connector |-> 0,
     wallet |-> [c \in 1..NumConnectors |-> "0x1"],
     chainId |-> 0, providerRef |-> 0, lastChainIdRef |-> 0,
     current |-> 0, instances |-> [k \in 1..MaxInstances |-> NoInstance]]

\* the cleanup of the effect instance in charge, if any
Cleanup(h) ==
    IF h.current = 0 THEN h
    ELSE LET k == h.current
         IN  [h EXCEPT !.instances[k].isMounted = FALSE,
                       !.instances[k].pollInterval = FALSE,
                       !.instances[k].listening =
                           IF h.providerRef # 0 /\ h.providerRef = @ THEN 0 ELSE @,
                       !.current = 0]

\* the body of useEffect(..., [isConnected, connector])
useWalletChainId(h) ==
    IF ~h.isConnected \/ h.connector = 0
    THEN [h EXCEPT !.chainId = 0, !.providerRef = 0, !.lastChainIdRef = 0]
    ELSE LET k == CHOOSE j \in 1..MaxInstances : h.instances[j].state = "unused"
         IN  [h EXCEPT !.instances[k] = [NoInstance EXCEPT !.state = "getProvider",
                                                            !.connector = h.connector,
                                                            !.isMounted = TRUE],
                       !.current = k]

\* lastChainIdRef.current = id; setChainId(id)
SetChain(h, id) == [h EXCEPT !.lastChainIdRef = id, !.chainId = id]

\* useAccount() changes: the wallet connects, disconnects or changes its
\* connector; the effect is cleaned up and runs again
AccountChanges(conn, c) ==
    /\ <<conn, c>> # <<chain.isConnected, chain.connector>>
    /\ conn <=> c # 0
    /\ c # 0 => \E j \in 1..MaxInstances : chain.instances[j].state = "unused"
    /\ chain' = useWalletChainId([Cleanup(chain) EXCEPT !.isConnected = conn,
                                                       !.connector = c])
    /\ UNCHANGED <<component, ws, contracts>>

\* initializeProvider resumes after `await getCorrectProvider()`
GetProviderReturns(k, found) ==
    /\ chain.instances[k].state = "getProvider"
    /\ chain' = IF found
                THEN [chain EXCEPT !.providerRef = chain.instances[k].connector,
                                   !.instances[k].state = "request"]
                ELSE [chain EXCEPT !.instances[k].state = "failed"]
    /\ UNCHANGED <<component, ws, contracts>>

\* initializeProvider resumes after `await provider.request({ method:
\* 'eth_chainId' })`, with the answer or in the catch block
InitialRequestReturns(k, answered) ==
    /\ chain.instances[k].state = "request"
    /\ LET i == chain.instances[k]
           id == parseInt16(chain.wallet[i.connector])
       IN  chain' =
             IF ~answered THEN [chain EXCEPT !.instances[k].state = "failed"]
             ELSE IF ~i.isMounted THEN [chain EXCEPT !.instances[k].state = "done"]
             ELSE [SetChain(chain, id) EXCEPT !.instances[k].state = "done",
                                              !.instances[k].listening = i.connector,
                                              !.instances[k].pollInterval = TRUE]
    /\ UNCHANGED <<component, ws, contracts>>

\* the wallet of connector c switches to the chain hex; the provider emits
\* chainChanged to its listeners (handleChainChanged) or, emits = FALSE, fails to
SwitchChain(c, hex, emits) ==
    /\ chain.wallet[c] # hex
    /\ LET h == [chain EXCEPT !.wallet[c] = hex]
           heard == \E k \in 1..MaxInstances :
                       h.instances[k].listening = c /\ h.instances[k].isMounted
       IN  chain' = IF emits /\ heard THEN SetChain(h, parseInt16(hex)) ELSE h
    /\ UNCHANGED <<component, ws, contracts>>

\* setInterval(pollChainId, 2000) ticks for instance k, or the provider the
\* instance listens to emits accountsChanged (handleAccountsChanged): up to
\* the request sent; one request of an instance is in flight at a time
SendRequest(k, kind) ==
    /\ chain.instances[k].req = "none"
    /\ \/ kind = "poll" /\ chain.instances[k].pollInterval
       \/ kind = "accounts" /\ chain.instances[k].listening # 0
    /\ chain.instances[k].isMounted
    /\ chain.providerRef # 0
    /\ chain' = [chain EXCEPT !.instances[k].req = kind,
                              !.instances[k].reqProvider = chain.providerRef]
    /\ UNCHANGED <<component, ws, contracts>>

\* pollChainId resumes after its await, or the then / catch of
\* handleAccountsChanged runs
RequestReturns(k, answered) ==
    /\ chain.instances[k].req # "none"
    /\ LET i == chain.instances[k]
           id == parseInt16(chain.wallet[i.reqProvider])
           h == [chain EXCEPT !.instances[k].req = "none",
                              !.instances[k].reqProvider = 0]
       IN  chain' =
             IF ~answered THEN h
             ELSE IF i.req = "poll"
                  THEN IF id # chain.lastChainIdRef THEN SetChain(h, id) ELSE h
                  ELSE IF i.isMounted THEN SetChain(h, id) ELSE h
    /\ UNCHANGED <<component, ws, contracts>>

\* ----------------------------------------------------- Swap and SwapExecutor

\* slippage tolerances the holder confirms in the modal, in thousandths of a
\* percent (100 is 0.1 %), one of them outside the accepted range
Tolerances == {50, 100, 154, 1000, 50000}

\* amountOutRaw of the Quoter results, and the amounts a swap delivers
Quotes == {1, 50, 100, 10000}

Outputs == {49, 98, 99, 9800, 9850, 9900, 10000}

InitSwap ==
    [slippageTolerance |-> DEFAULT_SLIPPAGE_TOLERANCE, quoteInfo |-> 0,
     pc |-> "idle", tolerance |-> 0, quotedAmountOut |-> 0, minAmountOut |-> 0,
     amountOut |-> 0]

\* BigInt(Math.round(slippageTolerance * 100)): basis points
slippageBasisPoints(s) == (s + 5) \div 10

\* (quotedAmountOut * (10000n - totalSlippageBasisPoints)) / 10000n
minAmountOut(q, s) ==
    LET totalSlippageBasisPoints == slippageBasisPoints(s) + safetyBufferBasisPoints
    IN  (q * (10000 - totalSlippageBasisPoints)) \div 10000

\* a minAmountOut without the safety buffer
minAmountOutOfTolerance(q, s) ==
    (q * (10000 - slippageBasisPoints(s))) \div 10000

\* the Confirm button of the slippage modal
ConfirmSlippage(v) ==
    /\ v >= 100 /\ v <= 50000
    /\ swap' = [swap EXCEPT !.slippageTolerance = v]
    /\ UNCHANGED <<component, ws, chain, huku, simpleAirdrop>>

\* the Quoter answers: setQuoteInfo
QuoteArrives(q) ==
    /\ swap.pc # "submitted"
    /\ swap' = [swap EXCEPT !.quoteInfo = q]
    /\ UNCHANGED <<component, ws, chain, huku, simpleAirdrop>>

\* handleSwap, with an amount entered and the holder on the required chain
handleSwap ==
    /\ swap.pc # "submitted"
    /\ swap.quoteInfo # 0
    /\ minAmountOut(swap.quoteInfo, swap.slippageTolerance) # 0
    /\ swap' = [swap EXCEPT !.pc = "submitted",
                            !.tolerance = swap.slippageTolerance,
                            !.quotedAmountOut = swap.quoteInfo,
                            !.minAmountOut = minAmountOut(swap.quoteInfo,
                                                          swap.slippageTolerance),
                            !.amountOut = 0]
    /\ UNCHANGED <<component, ws, chain, huku, simpleAirdrop>>

\* SwapExecutor.unlockCallback: the pool delivers out
unlockCallback(out) ==
    /\ swap.pc = "submitted"
    /\ swap' = IF swap.minAmountOut > 0 /\ out >= swap.minAmountOut
               THEN [swap EXCEPT !.pc = "executed", !.amountOut = out]
               ELSE [swap EXCEPT !.pc = "reverted"]
    /\ UNCHANGED <<component, ws, chain, huku, simpleAirdrop>>

\* ------------------------------------------------------------------ HukuNFT

\* the accounts that hold HakuToken: two users, the contract and its owner
Users == {"u1", "u2"}

Accounts == Users \cup {"this", "owner"}

TokenIdsOfHuku == 1..MaxTokens

\* after initialize(): nextTokenId = 1, no token minted; each user holds
\* UserFunds HakuToken and has approved the contract
InitHuku ==
    [mintPrice |-> 1, nextTokenId |-> 1,
     ownerOf |-> [i \in TokenIdsOfHuku |-> "none"],
     mintUser |-> [i \in TokenIdsOfHuku |-> "none"],
     balanceOf |-> [a \in Accounts |-> IF a \in Users THEN UserFunds ELSE 0]]

\* hakuToken.transfer / transferFrom of v from a to b
transferHaku(h, a, b, v) ==
    IF a = b THEN h
    ELSE [h EXCEPT !.balanceOf[a] = @ - v, !.balanceOf[b] = @ + v]

\* safeMint(to, remark, tokenURL) called by sender, remark not empty
safeMint(sender, to) ==
    /\ huku.nextTokenId <= MaxTokens
    /\ huku.mintPrice > 0 => huku.balanceOf[sender] >= huku.mintPrice
    /\ LET tokenId == huku.nextTokenId
           paid == IF huku.mintPrice > 0
                   THEN transferHaku(huku, sender, "this", huku.mintPrice)
                   ELSE huku
       IN  huku' = [paid EXCEPT !.nextTokenId = tokenId + 1,
                                !.ownerOf[tokenId] = to,
                                !.mintUser[tokenId] = to]
    /\ UNCHANGED <<component, ws, chain, swap, simpleAirdrop>>

\* ERC721 transferFrom(from, to, tokenId) called by the token's owner
transferFrom(from, to, tokenId) ==
    /\ huku.ownerOf[tokenId] = from
    /\ from # to
    /\ huku' = [huku EXCEPT !.ownerOf[tokenId] = to]
    /\ UNCHANGED <<component, ws, chain, swap, simpleAirdrop>>

\* updateMintPrice(_mintPrice), by the contract's owner
updateMintPrice(p) ==
    /\ p # huku.mintPrice
    /\ huku' = [huku EXCEPT !.mintPrice = p]
    /\ UNCHANGED <<component, ws, chain, swap, simpleAirdrop>>

\* withdrawHakuToken() and withdrawHakuToken(amount), by the contract's owner
withdrawHakuToken(amount) ==
    /\ amount > 0
    /\ huku.balanceOf["this"] >= amount
    /\ huku' = transferHaku(huku, "this", "owner", amount)
    /\ UNCHANGED <<component, ws, chain, swap, simpleAirdrop>>

\* _update(address(0), tokenId, auth): the burn branch, or the state unchanged
\* where a require fails
updateBurn(h, tokenId) ==
    LET mintUserAddress == h.mintUser[tokenId]
        burned == [h EXCEPT !.ownerOf[tokenId] = "none", !.mintUser[tokenId] = "none"]
    IN  IF h.mintPrice > 0 /\ mintUserAddress # "none"
        THEN IF h.balanceOf["this"] >= h.mintPrice
             THEN transferHaku(burned, "this", mintUserAddress, h.mintPrice)
             ELSE h
        ELSE burned

\* userBurn(tokenId) called by sender: burn(tokenId) requires the owner
userBurn(sender, tokenId) ==
    /\ huku.ownerOf[tokenId] = sender
    /\ huku' = updateBurn(huku, tokenId)
    /\ huku' # huku
    /\ UNCHANGED <<component, ws, chain, swap, simpleAirdrop>>

\* ------------------------------------------------------------ SimpleAirdrop

\* after initialize(): the default limits, in units of 10000 * 1e18, and the
\* tokens the contract was funded with
InitAirdrop ==
    [airdropPaused |-> FALSE, maxAirdropAmount |-> 1, maxTotalPerAddress |-> 5,
     totalAirdropped |-> [r \in Users |-> 0],
     totalAirdropCount |-> 0, totalAirdropVolume |-> 0,
     balance |-> AirdropFunds]

\* airdrop(recipient, amount); token.transfer fails beyond the balance
airdrop(recipient, amount) ==
    /\ ~simpleAirdrop.airdropPaused
    /\ amount > 0
    /\ amount <= simpleAirdrop.maxAirdropAmount
    /\ simpleAirdrop.totalAirdropped[recipient] + amount <= simpleAirdrop.maxTotalPerAddress
    /\ amount <= simpleAirdrop.balance
    /\ simpleAirdrop' = [simpleAirdrop EXCEPT !.balance = @ - amount,
                                              !.totalAirdropped[recipient] = @ + amount,
                                              !.totalAirdropCount = @ + 1,
                                              !.totalAirdropVolume = @ + amount]
    /\ UNCHANGED <<component, ws, chain, swap, huku>>

\* setMaxAirdropAmount(_maxAmount)
setMaxAirdropAmount(maxAmount) ==
    /\ maxAmount > 0
    /\ simpleAirdrop' = [simpleAirdrop EXCEPT !.maxAirdropAmount = maxAmount]
    /\ UNCHANGED <<component, ws, chain, swap, huku>>

\* setMaxTotalPerAddress(_maxTotal)
setMaxTotalPerAddress(maxTotal) ==
    /\ maxTotal > 0
    /\ simpleAirdrop' = [simpleAirdrop EXCEPT !.maxTotalPerAddress = maxTotal]
    /\ UNCHANGED <<component, ws, chain, swap, huku>>

\* pauseAirdrop()
pauseAirdrop ==
    /\ ~simpleAirdrop.airdropPaused
    /\ simpleAirdrop' = [simpleAirdrop EXCEPT !.airdropPaused = TRUE]
    /\ UNCHANGED <<component, ws, chain, swap, huku>>

\* resumeAirdrop()
resumeAirdrop ==
    /\ simpleAirdrop.airdropPaused
    /\ simpleAirdrop' = [simpleAirdrop EXCEPT !.airdropPaused = FALSE]
    /\ UNCHANGED <<component, ws, chain, swap, huku>>

\* ------------------------------------------------------------------ Init

Init ==
    /\ address = NoAddress
    /\ wsStatus = "disconnected"
    /\ nfts = {}
    /\ approvedNftIds = {}
    /\ mintingNftId = NULL
    /\ approvingNftId = NULL
    /\ burningNftId = NULL
    /\ revokingNftId = NULL
    /\ write = IdleHook
    /\ approve = IdleHook
    /\ revoke = IdleHook
    /\ burn = IdleHook
    /\ timeoutRef = NULL
    /\ timeoutCb = NULL
    /\ poll = NoPoll
    /\ pollFetch = FALSE
    /\ staleFetch = {}
    /\ associatedTransfer = "null"
    /\ burnFetch = FALSE
    /\ hasRequestedInitialData = FALSE
    /\ initialFetch = FALSE
    /\ mintClick = NoClick
    /\ allowance = 0
    /\ allowanceData = Unread
    /\ request = NoRequest
    /\ ws = InitHook
    /\ action = NoAction
    /\ lastSnapshot = NoSnapshot
    /\ chain = InitChain
    /\ swap = InitSwap
    /\ huku = InitHuku
    /\ simpleAirdrop = InitAirdrop

\* ---------------------------------------------------- wallet and channel

\* useAccount(): the wallet connects; useWebSocket is enabled by !!address
ConnectWallet(u) ==
    /\ address = NoAddress
    /\ Do([Cur EXCEPT !.address = u])

\* useAccount(): the wallet disconnects; useWebSocket's cleanup disconnects
DisconnectWallet ==
    /\ address # NoAddress
    /\ Do([Cur EXCEPT !.address = NoAddress, !.wsStatus = "disconnected",
                       !.allowanceData = Unread])

\* useAccount(): the wallet switches account, address to address
SwitchAccount(u) ==
    /\ address # NoAddress
    /\ address # u
    /\ Do([Cur EXCEPT !.address = u, !.allowanceData = Unread])

\* ws.onopen: setStatus('connected')
WsOpen ==
    /\ address # NoAddress
    /\ wsStatus # "connected"
    /\ Do([Cur EXCEPT !.wsStatus = "connected"])

\* ws.onclose: setStatus('disconnected')
WsClose ==
    /\ wsStatus = "connected"
    /\ Do([Cur EXCEPT !.wsStatus = "disconnected"])

\* ws.onmessage -> onMessage(message)
OnMessage(m) ==
    /\ wsStatus = "connected"
    /\ Do(HandleMessage(Cur, m))

\* fetchInitialNFTs resumes after `await fetch(apiUrl)`
InitialFetchReturns(r) ==
    /\ initialFetch
    /\ Do(InitialNFTs([Cur EXCEPT !.initialFetch = FALSE], r))

\* ---------------------------------------------------------------- clicks

\* nft.all_chips_owned && nft.is_mint === 0: the branch that offers Mint,
\* Mint NFT and Revoke
CanMint(i) == Has(nfts, i) /\ Eligible(Find(nfts, i))

\* "Mint" (approve) onClick: shown while the item is not in approvedNftIds
ClickApprove(i) ==
    /\ address # NoAddress
    /\ CanMint(i)
    /\ i \notin approvedNftIds
    /\ ~(approvingNftId = i /\ (IsConfirming(approve) \/ IsPending(approve)))
    /\ Do([Cur EXCEPT !.approvingNftId = i, !.approve = PendingHook])

\* "Revoke" onClick: shown while the item is in approvedNftIds and allowance > 0
ClickRevoke(i) ==
    /\ address # NoAddress
    /\ CanMint(i)
    /\ i \in approvedNftIds
    /\ allowance > 0
    /\ ~(revokingNftId = i /\ (IsConfirming(revoke) \/ IsPending(revoke)))
    /\ Do([Cur EXCEPT !.revokingNftId = i, !.revoke = PendingHook])

\* "Burn" onClick: shown for is_mint === 2 with a token_id
ClickBurn(i) ==
    /\ address # NoAddress
    /\ Has(nfts, i)
    /\ Find(nfts, i).is_mint = 2
    /\ ~(burningNftId = i \/ IsPending(burn) \/ IsConfirming(burn))
    /\ Do([Cur EXCEPT !.burningNftId = i, !.burn = PendingHook])

\* "Mint NFT" onClick up to `await refetchAllowance()`; one handler at a time
ClickMintNFT(i) ==
    /\ address # NoAddress
    /\ CanMint(i)
    /\ i \in approvedNftIds
    /\ ~(mintingNftId = i /\ (IsPending(write) \/ IsConfirming(write)))
    /\ mintingNftId # i
    /\ mintClick.pc = "idle"
    /\ Do([Cur EXCEPT !.mintClick = [pc |-> "allowance", nft |-> i]])

\* "Mint NFT" onClick from the answer of `await refetchAllowance()` to
\* `await fetch(verify)`.  A refetch that fails resolves with the data the
\* query already holds; hasPrice says whether mintPrice has been read.
AllowanceReturns(readOk, hasPrice) ==
    /\ mintClick.pc = "allowance"
    /\ LET i == mintClick.nft
           currentAllowanceValue == IF readOk THEN allowance ELSE allowanceData
           a == [Cur EXCEPT !.allowanceData = currentAllowanceValue]
       IN  IF \/ ~hasPrice
              \/ currentAllowanceValue = Unread
              \/ currentAllowanceValue = 0
              \/ currentAllowanceValue < mintPrice
           THEN Do([a EXCEPT !.mintClick = NoClick])
           ELSE Do([a EXCEPT !.mintingNftId = i,
                             !.mintClick = [pc |-> "verify", nft |-> i],
                             !.action = [nft |-> i, phase |-> "verifying",
                                         rollbacks |-> 0,
                                         read |-> IF readOk THEN allowance ELSE Unread,
                                         answer |-> "none"]])

\* the answers of the eligibility check that differ in what the handler does
VerifyOutcomes == {Unavailable, Ineligible, Granted, Unparsable}

\* history: the eligibility answer in short
Answer(r) ==
    IF r.kind # "ok" THEN r.kind ELSE IF r.eligible THEN "eligible" ELSE "ineligible"

\* "Mint NFT" onClick from the verification answer on: writeContract, or the
\* catch block up to its `await fetch('/api/mint-failed')`.  BigInt(NaN)
\* throws before writeContract is called.
VerifyReturns(r) ==
    /\ mintClick.pc = "verify"
    /\ LET i == mintClick.nft
           c == [Cur EXCEPT !.action.answer = Answer(r)]
       IN  CASE ~ResponseOk(r) ->
                  Do([Advance(Rollback(c, i), "verifying", "unverified")
                        EXCEPT !.mintClick = [pc |-> "rollback", nft |-> i]])
             [] ResponseOk(r) /\ ~IsEligible(r) ->
                  Do([Advance(c, "verifying", "unverified")
                        EXCEPT !.mintingNftId = NULL, !.mintClick = NoClick])
             [] ResponseOk(r) /\ IsEligible(r) /\ TokenIdNum(r) # NaN ->
                  Do([Advance(c, "verifying", "signing")
                        EXCEPT !.approvedNftIds = Clear(@, i),
                               !.write = PendingHook,
                               !.request = [sent |-> TRUE, nft |-> i,
                                            remark |-> Remark(r, i),
                                            tokenURL |-> TokenIdNum(r),
                                            verify |-> r],
                               !.mintClick = NoClick])
             [] ResponseOk(r) /\ IsEligible(r) /\ TokenIdNum(r) = NaN ->
                  Do([Advance(Rollback(c, i), "verifying", "unverified")
                        EXCEPT !.approvedNftIds = Clear(@, i),
                               !.mintClick = [pc |-> "rollback", nft |-> i]])

\* "Mint NFT" onClick catch block after its rollback fetch: setMintingNftId(null)
RollbackReturns ==
    /\ mintClick.pc = "rollback"
    /\ Do([Cur EXCEPT !.mintingNftId = NULL, !.mintClick = NoClick])

\* ------------------------------------------------- signing agent and ledger

\* useReadContract(allowance), refetchInterval: 3000: a read that succeeds
AllowancePoll ==
    /\ address # NoAddress
    /\ allowanceData # allowance
    /\ Do([Cur EXCEPT !.allowanceData = allowance])

\* the holder spends or resets the allowance outside this page
AllowanceElsewhere(v) ==
    /\ address # NoAddress
    /\ v # allowance
    /\ Do([Cur EXCEPT !.allowance = v])

Hooks == {"write", "approve", "revoke", "burn"}

\* the signing agent answers a request: a handle, or an error (the user
\* refused, or the call reverted in gas estimation)
WalletResponds(h, o) ==
    /\ IsPending(Cur[h])
    /\ LET a == [Cur EXCEPT ![h].status = IF o = "hash" THEN "success" ELSE "error"]
       IN  Do(IF h = "write"
              THEN Advance(a, "signing", IF o = "hash" THEN "submitted" ELSE "rejected")
              ELSE a)

\* the ledger executes the submitted call and the receipt arrives
LedgerEffect(h, v) ==
    CASE h = "approve" -> mintPrice
      [] h = "revoke" -> 0
      [] h = "write" -> v - mintPrice
      [] OTHER -> v

ReceiptArrives(h, o) ==
    /\ IsConfirming(Cur[h])
    /\ (h = "write" /\ o = "confirmed") => allowance >= mintPrice
    /\ LET a == [Cur EXCEPT ![h].receipt = o,
                            !.allowance = IF o = "confirmed" THEN LedgerEffect(h, @) ELSE @]
       IN  Do(IF h = "write" THEN Advance(a, "submitted", o) ELSE a)

\* the 30 s timer fires: the callback tests the hash and mintingNftId it
\* closed over (no hash, an id: the effect set it under that test) and runs
\* up to `await fetch('/api/mint-failed')`
TimerFires ==
    /\ timeoutRef # NULL
    /\ timeoutCb = NULL
    /\ LET a == Rollback(Cur, timeoutRef)
       IN  Do([(IF timeoutRef = action.nft THEN Advance(a, "signing", "timeout") ELSE a)
                 EXCEPT !.timeoutCb = timeoutRef, !.timeoutRef = NULL])

\* the timer callback after its rollback fetch: alert, setMintingNftId(null)
TimerRollbackReturns ==
    /\ timeoutCb # NULL
    /\ Do([Cur EXCEPT !.mintingNftId = NULL, !.timeoutCb = NULL])

\* ---------------------------------------------------------------- polling

\* setInterval(() => fetchNFTs(), 3000); one fetch of the instance in flight
\* at a time, and at most cap fetches counted per instance
PollTick(cap) ==
    /\ poll.active
    /\ ~pollFetch
    /\ poll.fetches < cap
    /\ Do([Cur EXCEPT !.pollFetch = TRUE, !.poll.fetches = @ + 1])

\* a fetchNFTs of the live instance resumes after `await fetch(apiUrl)`
PollReturns(r) ==
    /\ pollFetch
    /\ Do(FetchNFTs([Cur EXCEPT !.pollFetch = FALSE], poll.id, r, TRUE))

\* a fetchNFTs of a cleaned-up instance resumes
StaleReturns(i, r) ==
    /\ i \in staleFetch
    /\ Do(FetchNFTs([Cur EXCEPT !.staleFetch = @ \ {i}], i, r, FALSE))

\* associateEventsByTxHash resolves: setAssociatedTransfer(result)
AssociationReturns(found) ==
    /\ associatedTransfer = "fetching"
    /\ Do([Cur EXCEPT !.associatedTransfer = IF found THEN "set" ELSE "null"])

\* the post-burn fetchNFTs resumes
BurnFetchReturns(r) ==
    /\ burnFetch
    /\ Do(BurnRefresh([Cur EXCEPT !.burnFetch = FALSE], r))

\* ---------------------------------------------------- useWebSocket events

\* useEffect(..., [enabled, connect, disconnect]) with enabled true: connect().
\* Here and below, cap bounds the sockets an instance creates.
EnableChannel(cap) ==
    /\ ~ws.enabled
    /\ ws.next <= cap
    /\ ws' = connect([ws EXCEPT !.enabled = TRUE, !.stopped = FALSE], TRUE)
    /\ UNCHANGED <<component, chain, contracts>>

\* enabled turns false, or the component unmounts: the cleanup calls disconnect()
DisableChannel ==
    /\ ws.enabled
    /\ ws' = [disconnect(ws) EXCEPT !.enabled = FALSE, !.stopped = TRUE]
    /\ UNCHANGED <<component, chain, contracts>>

\* the consumer calls the returned disconnect()
CallDisconnect ==
    /\ ws.enabled
    /\ ~ws.stopped
    /\ ws' = [disconnect(ws) EXCEPT !.stopped = TRUE]
    /\ UNCHANGED <<component, chain, contracts>>

\* the consumer calls the returned reconnect(): retryCountRef.current = 0;
\* connect(), the connect of the current render
CallReconnect(cap) ==
    /\ ws.next <= cap
    /\ ws' = connect([ws EXCEPT !.retryCountRef = 0, !.stopped = FALSE,
                                !.reconnects = (@ + 1) % 2], ws.enabled)
    /\ UNCHANGED <<component, chain, contracts>>

\* the connection of socket k is established
SocketOpen(k) ==
    /\ ws.sockets[k].state = "connecting"
    /\ ws' = onopen(ws, k)
    /\ UNCHANGED <<component, chain, contracts>>

\* the connection of socket k fails
SocketError(k) ==
    /\ ws.sockets[k].state \in {"connecting", "open"}
    /\ ws' = onerror(ws, k)
    /\ UNCHANGED <<component, chain, contracts>>

\* the close event of socket k is delivered: the server closed it, or it
\* failed, or the code closed it
SocketClose(k) ==
    /\ ws.sockets[k].state \in {"connecting", "open", "closing"}
    /\ ws' = onclose(ws, k)
    /\ UNCHANGED <<component, chain, contracts>>

\* the reconnect timer set by the onclose of socket k fires: connect()
ReconnectTimerFires(k, cap) ==
    /\ ws.sockets[k].timer = "pending"
    /\ ws.next <= cap
    /\ ws' = connect([ws EXCEPT !.sockets[k].timer = "fired"], ws.sockets[k].enabled)
    /\ UNCHANGED <<component, chain, contracts>>

\* ------------------------------------------------------------------ Next

\* inputs that mention only the items of S
ListsOf(S) == { l \in NFTLists : \A n \in l : n.nft_id \in S }

ResponsesOf(S) == { r \in Responses : r.nfts \in ListsOf(S) }

MessagesOf(S) == { m \in Messages : m.nfts \in ListsOf(S) }

\* the holder connects, the channel opens and the initial list arrives, with
\* lists over the items S
Opening(S) ==
    \/ ConnectWallet("a1")
    \/ WsOpen
    \/ \E r \in ResponsesOf(S) : InitialFetchReturns(r)

\* the same, and the channel delivers pushes
Channel(S) ==
    \/ Opening(S)
    \/ \E m \in MessagesOf(S) : OnMessage(m)

\* the Authorize flow with every answer of the signing agent and the ledger
Authorize(S) ==
    \/ \E i \in S : ClickApprove(i)
    \/ \E o \in {"hash", "error"} : WalletResponds("approve", o)
    \/ \E o \in {"confirmed", "reverted"} : ReceiptArrives("approve", o)

\* the Convert flow up to the receipt, with every answer
Convert(S) ==
    \/ \E i \in S : ClickMintNFT(i)
    \/ \E b \in BOOLEAN : AllowanceReturns(b, TRUE)
    \/ \E o \in VerifyOutcomes : VerifyReturns(o)
    \/ RollbackReturns
    \/ \E o \in {"hash", "error"} : WalletResponds("write", o)
    \/ \E o \in {"confirmed", "reverted"} : ReceiptArrives("write", o)
    \/ TimerFires
    \/ TimerRollbackReturns

\* post-confirmation polling, at most cap fetches per instance
Polling(S, cap) ==
    \/ \E b \in BOOLEAN : AssociationReturns(b)
    \/ PollTick(cap)
    \/ \E r \in ResponsesOf(S) : PollReturns(r)
    \/ \E i \in S, r \in ResponsesOf(S) : StaleReturns(i, r)

\* the Reclaim flow with every answer
Reclaim(S) ==
    \/ \E i \in S : ClickBurn(i)
    \/ \E o \in {"hash", "error"} : WalletResponds("burn", o)
    \/ \E o \in {"confirmed", "reverted"} : ReceiptArrives("burn", o)
    \/ \E r \in ResponsesOf(S) : BurnFetchReturns(r)

NextAuthorize == Channel(Items) \/ Authorize(Items)

SpecAuthorize == Init /\ [][NextAuthorize]_vars

NextConvert == Opening({1}) \/ Authorize({1}) \/ Convert({1}) \/ Polling({1}, MaxPollFetches)

SpecConvert == Init /\ [][NextConvert]_vars

\* the Authorize and Convert flows when the user signs and the ledger accepts
Confirmed(S) ==
    \/ \E i \in S : ClickApprove(i)
    \/ WalletResponds("approve", "hash")
    \/ ReceiptArrives("approve", "confirmed")
    \/ \E i \in S : ClickMintNFT(i)
    \/ AllowanceReturns(TRUE, TRUE)
    \/ VerifyReturns(Granted)
    \/ WalletResponds("write", "hash")
    \/ ReceiptArrives("write", "confirmed")

\* a confirmed Convert of item 1 and its polling, run past the retry limit;
\* the holder starts nothing while an interval is running
NextPoll ==
    \/ /\ ~poll.active
       /\ \/ Opening({1})
          \/ Confirmed({1})
    \/ PollTick(maxRetries + 2)
    \/ \E r \in ResponsesOf({1}) : PollReturns(r)

SpecPoll == Init /\ [][NextPoll]_vars

\* every path that applies a snapshot: push, initial fetch, poll (the fetch a
\* polling instance issues at once), post-burn refresh, with every payload.  The holder starts one action at a time, one
\* Convert (of item 1) and one Reclaim in all, signs, and the ledger accepts.
NoSlot ==
    /\ approvingNftId = NULL
    /\ mintingNftId = NULL
    /\ burningNftId = NULL
    /\ mintClick.pc = "idle"

NextSnapshot ==
    \/ Channel(Items)
    \/ NoSlot /\ \E i \in Items : ClickApprove(i)
    \/ WalletResponds("approve", "hash")
    \/ ReceiptArrives("approve", "confirmed")
    \/ NoSlot /\ write = IdleHook /\ ClickMintNFT(1)
    \/ AllowanceReturns(TRUE, TRUE)
    \/ VerifyReturns(Granted)
    \/ WalletResponds("write", "hash")
    \/ ReceiptArrives("write", "confirmed")
    \/ \E r \in ResponsesOf(Items) : PollReturns(r)
    \/ NoSlot /\ burn = IdleHook /\ \E i \in Items : ClickBurn(i)
    \/ WalletResponds("burn", "hash")
    \/ ReceiptArrives("burn", "confirmed")
    \/ \E r \in ResponsesOf(Items) : BurnFetchReturns(r)

SpecSnapshot == Init /\ [][NextSnapshot]_vars

\* every step that writes the record on behalf of one item: a confirmed
\* Authorize, a confirmed revoke, the dispatch of a Convert and the poll that
\* follows its confirmation.  The holder starts one action at a time and one
\* Convert (of item 1) in all, signs, and the ledger accepts.
NextRecord ==
    \/ Channel(Items)
    \/ NoSlot /\ revokingNftId = NULL /\ \E i \in Items : ClickApprove(i)
    \/ WalletResponds("approve", "hash")
    \/ ReceiptArrives("approve", "confirmed")
    \/ NoSlot /\ revokingNftId = NULL /\ \E i \in Items : ClickRevoke(i)
    \/ WalletResponds("revoke", "hash")
    \/ ReceiptArrives("revoke", "confirmed")
    \/ NoSlot /\ revokingNftId = NULL /\ write = IdleHook /\ ClickMintNFT(1)
    \/ AllowanceReturns(TRUE, TRUE)
    \/ VerifyReturns(Granted)
    \/ WalletResponds("write", "hash")
    \/ ReceiptArrives("write", "confirmed")
    \/ \E r \in ResponsesOf(Items) : PollReturns(r)

SpecRecord == Init /\ [][NextRecord]_vars

\* the Mint NFT click handler of item 1 with every answer of the allowance
\* read and of the eligibility check, up to the answer of the signing agent
NextVerify ==
    \/ Opening({1})
    \/ ClickApprove(1)
    \/ WalletResponds("approve", "hash")
    \/ ReceiptArrives("approve", "confirmed")
    \/ AllowancePoll
    \/ \E v \in 0..mintPrice : AllowanceElsewhere(v)
    \/ ClickMintNFT(1)
    \/ \E readOk, hasPrice \in BOOLEAN : AllowanceReturns(readOk, hasPrice)
    \/ \E r \in VerifyResponses : VerifyReturns(r)
    \/ RollbackReturns
    \/ \E o \in {"hash", "error"} : WalletResponds("write", o)

SpecVerify == Init /\ [][NextVerify]_vars

\* the holder owns every unit of every item of the collection: pushes show
\* all items, each not requested, in progress or minted, and the Authorize
\* flow runs on any of them
NextBystander ==
    \/ ConnectWallet("a1")
    \/ WsOpen
    \/ \E m \in { k \in MessagesOf(AllItems) : Cardinality(k.nfts) = Cardinality(AllItems) } :
          OnMessage(m)
    \/ Authorize(AllItems)

SpecBystander == Init /\ [][NextBystander]_vars

\* a useWebSocket instance with every event of its sockets and its timers,
\* and every call of its consumer, in any order
NextChannel ==
    \/ EnableChannel(MaxLiveSockets)
    \/ DisableChannel
    \/ CallDisconnect
    \/ CallReconnect(MaxLiveSockets)
    \/ \E k \in 1..MaxSockets : SocketOpen(k)
    \/ \E k \in 1..MaxSockets : SocketError(k)
    \/ \E k \in 1..MaxSockets : SocketClose(k)
    \/ \E k \in 1..MaxSockets : ReconnectTimerFires(k, MaxLiveSockets)

SpecChannel == Init /\ [][NextChannel]_vars

\* a useWebSocket instance left to itself: its sockets open, fail or are
\* closed by the server, and its timers fire, up to the retry limit and past it
NextRetry ==
    \/ EnableChannel(MaxSockets)
    \/ \E k \in 1..MaxSockets : SocketOpen(k)
    \/ \E k \in 1..MaxSockets : SocketError(k)
    \/ \E k \in 1..MaxSockets : SocketClose(k)
    \/ \E k \in 1..MaxSockets : ReconnectTimerFires(k, MaxSockets)

SpecRetry == Init /\ [][NextRetry]_vars

\* ---------------------------------------------------------------- claims

\* ids the list shows with is_mint = 0
NotRequestedIds(l) == { n.nft_id : n \in { m \in l : m.is_mint = 0 } }

\* the slot that holds the item of a request
SlotOf(h) ==
    CASE h = "write" -> mintingNftId
      [] h = "approve" -> approvingNftId
      [] h = "revoke" -> revokingNftId
      [] h = "burn" -> burningNftId

\* C1: in every reachable state, every id in the authorization record
\* belongs to an item that the most recently applied snapshot shows Eligible
\* (all units collected and is_mint = 0).
C1_RecordIsEligible ==
    \A id \in approvedNftIds : id \in EligibleIds(lastSnapshot.nfts)

\* C2: once a Convert has ended in a signer timeout, a signer rejection or a
\* ledger revert, /api/mint-failed has been called exactly once for its item.
C2_RollbackExactlyOnce ==
    action.phase \in {"timeout", "rejected", "reverted"} => action.rollbacks = 1

\* C3: no item has two pending actions at once: an item held by the Convert
\* slot is not also held by the Authorize or the Reclaim slot, and an item
\* held by the Reclaim slot is not also held by the Authorize slot.
C3_OnePendingAction ==
    \A i \in Items :
        /\ ~(mintingNftId = i /\ approvingNftId = i)
        /\ ~(mintingNftId = i /\ burningNftId = i)
        /\ ~(burningNftId = i /\ approvingNftId = i)

\* C4: a polling instance issues at most maxRetries fetches plus one, whatever
\* the backend answers.
C4_PollBound == poll.fetches <= maxRetries + 1

\* C5: once a polling instance has used up its maxRetries retries, the
\* Convert slot no longer holds the watched item.
C5_ExhaustionClears ==
    (poll.id # NULL /\ poll.retryCount >= maxRetries) => mintingNftId # poll.id

\* C6: a request that ended in an error of the signing agent or in a revert
\* no longer has its item in its slot: the step that enters the error path
\* clears the pending action.
C6_ErrorClearsPending ==
    \A h \in Hooks :
        (HasError(Cur[h]) \/ Cur[h].receipt = "reverted") => SlotOf(h) = NULL

\* C7: while an Authorize of item A is awaiting its signature or its
\* confirmation, no step replaces A in the Authorize slot by another item.
C7_ItemsIndependent ==
    [][(approvingNftId # NULL /\ (IsPending(approve) \/ IsConfirming(approve)))
          => approvingNftId' \in {approvingNftId, NULL}]_vars

\* C8: a step adds an id to the authorization record only if the item is
\* Eligible in the most recently applied snapshot.
C8_MarkGrantedWhenEligible ==
    [][\A i \in Items :
          (i \notin approvedNftIds /\ i \in approvedNftIds')
              => i \in EligibleIds(lastSnapshot'.nfts)]_vars

\* a step that applies a snapshot
SnapshotApplied == lastSnapshot'.seq # lastSnapshot.seq

C10_SnapshotNeverInserts ==
    [][SnapshotApplied => approvedNftIds' \subseteq approvedNftIds]_vars

\* a snapshot that shows both items was applied to the record of both items,
\* removed one and kept one
C10_Witness ==
    /\ lastSnapshot.prior = Items
    /\ Cardinality(lastSnapshot.nfts) = NumItems
    /\ Cardinality(approvedNftIds) = 1
    /\ approvedNftIds = NotRequestedIds(lastSnapshot.nfts)

\* the step in which the Authorize of item i is confirmed
AuthorizeConfirmedStep(i) ==
    approvingNftId = i /\ IsConfirming(approve) /\ IsConfirmed(approve')

\* the step in which the revoke of item i is confirmed
RevokeConfirmedStep(i) ==
    revokingNftId = i /\ IsConfirming(revoke) /\ IsConfirmed(revoke')

\* the step in which the Convert of item i is dispatched to the signing agent
DispatchStep(i) ==
    action.nft = i /\ action.phase = "verifying" /\ action'.phase = "signing"

\* the step in which a poll watching item i observes it Converted
ObservedStep(i) ==
    /\ pollFetch /\ ~pollFetch' /\ poll.id = i
    /\ SnapshotApplied
    /\ Has(lastSnapshot'.nfts, i)
    /\ Find(lastSnapshot'.nfts, i).is_mint = 2

\* C11 as stated: a confirmed Authorize of X adds X and nothing else, and a
\* clear of X (revoke confirmed, Convert dispatched, conversion observed by a
\* poll) removes X and nothing else.
C11_OnlyThatItem ==
    [][\A i \in Items :
          /\ AuthorizeConfirmedStep(i) => approvedNftIds' = approvedNftIds \cup {i}
          /\ RevokeConfirmedStep(i) => approvedNftIds' = approvedNftIds \ {i}
          /\ DispatchStep(i) => approvedNftIds' = approvedNftIds \ {i}
          /\ ObservedStep(i) => approvedNftIds' = approvedNftIds \ {i}]_vars

\* C11: a confirmed Authorize of X adds X and nothing else; a confirmed revoke
\* of X and the dispatch of a Convert of X remove X and nothing else; the poll
\* that observes X Converted removes X and, of the other ids, exactly those
\* its snapshot does not show with is_mint = 0.
C11_OnlyThatItemOrReconciled ==
    [][\A i \in Items :
          /\ AuthorizeConfirmedStep(i) => approvedNftIds' = approvedNftIds \cup {i}
          /\ RevokeConfirmedStep(i) => approvedNftIds' = approvedNftIds \ {i}
          /\ DispatchStep(i) => approvedNftIds' = approvedNftIds \ {i}
          /\ ObservedStep(i) =>
                approvedNftIds' =
                    (approvedNftIds \cap NotRequestedIds(lastSnapshot'.nfts)) \ {i}]_vars

\* a poll watching item 1 observed it Converted while item 2 was in the
\* record, and item 2 is still there
C11_Witness ==
    /\ action.nft = 1 /\ action.phase = "observed"
    /\ ~poll.active /\ ~pollFetch /\ mintingNftId = NULL
    /\ Has(lastSnapshot.nfts, 1) /\ Find(lastSnapshot.nfts, 1).is_mint = 2
    /\ lastSnapshot.prior = {2}
    /\ approvedNftIds = {2}

\* the step in which the timer callback of item i finishes: its rollback
\* fetch has returned and it clears the Convert slot
TimeoutDoneStep(i) ==
    timeoutCb = i /\ timeoutCb' = NULL /\ action.nft = i /\ action.phase = "timeout"

\* C12: when the 30 s timer of a Convert awaiting its signature has elapsed
\* with no hash and no rejection before it, then once the timer callback has
\* finished /api/mint-failed has been called exactly once for the item, the
\* Convert slot does not hold the item, no Mint NFT handler is running and
\* the item is not in the authorization record.
C12_SilentTimeout ==
    [][\A i \in Items :
          TimeoutDoneStep(i) =>
              /\ action'.rollbacks = 1
              /\ mintingNftId' # i
              /\ mintClick'.pc = "idle"
              /\ i \notin approvedNftIds']_vars

\* the signing agent has returned a hash for the Convert of item i
HandleReturned(i) ==
    /\ action.nft = i
    /\ Hash(write)
    /\ action.phase \in {"submitted", "confirmed", "reverted", "timeout"}

\* C13: once the signing agent has returned a hash for a Convert, no step of
\* the timeout path runs for it: the timer does not fire, and no timer
\* callback finishes (alert and clearing of the Convert slot).
C13_NoTimeoutAfterHandle ==
    [][\A i \in Items :
          HandleReturned(i) =>
              /\ ~(timeoutCb = NULL /\ timeoutCb' = i)
              /\ ~(timeoutCb = i /\ timeoutCb' = NULL)]_vars

\* C14: when the eligibility check answers eligible = false or fails in
\* transport, that step calls no writeContract, and once the click handler
\* has finished the Convert slot does not hold the item.
C14_NoDispatchUnlessEligible ==
    /\ [][(action'.answer \in {"throw", "notOk", "ineligible"} /\ action.answer = "none")
            => (write' = write /\ request' = request)]_vars
    /\ []((action.answer \in {"throw", "notOk", "ineligible"} /\ mintClick.pc = "idle")
            => mintingNftId # action.nft)

\* the eligibility check of item 1 answered ineligible or failed, the handler
\* has finished and the item can be converted again
C14_Witness ==
    /\ action.nft = 1
    /\ action.answer \in {"throw", "notOk", "ineligible"}
    /\ mintClick.pc = "idle"
    /\ mintingNftId = NULL
    /\ write = IdleHook

\* C15: the safeMint request made last carries the token_id and the
\* uint256_param of the eligibility answer it was built from, both present in
\* that answer.
C15_ParamsFromVerifier ==
    request.sent =>
        /\ request.verify.hasToken
        /\ request.remark = request.verify.token_id
        /\ request.verify.hasParam
        /\ request.tokenURL = request.verify.uint256_param

\* C16: a Convert that got past the allowance check did so on an allowance
\* that was read, and that was not below the price.
C16_AllowanceWasRead ==
    action.nft # NULL => (action.read # Unread /\ action.read >= mintPrice)

\* the step in which a fetchNFTs that watches item i receives a list showing
\* it minted
PollObserves(i) ==
    /\ SnapshotApplied
    /\ Has(lastSnapshot'.nfts, i)
    /\ Find(lastSnapshot'.nfts, i).is_mint = 2
    /\ \/ pollFetch /\ ~pollFetch' /\ poll.id = i
       \/ i \in staleFetch /\ i \notin staleFetch'

\* C17: the step in which a poll sees its item minted clears the Convert
\* slot, removes the id from the record and stops the interval; and from then
\* until the next Convert no interval runs and no poll fetch is issued.
C17_ObservedStopsPolling ==
    /\ [][\A i \in Items :
             PollObserves(i) =>
                 /\ mintingNftId' # i
                 /\ i \notin approvedNftIds'
                 /\ ~poll'.active
                 /\ ~pollFetch']_vars
    /\ [](action.phase = "observed" => (~poll.active /\ ~pollFetch))

\* a poll of the confirmed Convert of item 1 saw it minted: the interval is
\* gone and the slot is cleared
C17_Witness ==
    /\ action.nft = 1 /\ action.phase = "observed"
    /\ poll = NoPoll
    /\ mintingNftId = NULL
    /\ 1 \notin approvedNftIds
    /\ Has(nfts, 1) /\ Find(nfts, 1).is_mint = 2

\* a step that applies a snapshot delivered by a push message: no fetch
\* returned in it
PushApplied ==
    /\ SnapshotApplied
    /\ UNCHANGED <<pollFetch, staleFetch, initialFetch, burnFetch>>

\* C18: a push message that shows the item of the running poll minted clears
\* the Convert slot and stops the interval in that step.
C18_PushShortCircuits ==
    [][\A i \in Items :
          ( /\ PushApplied
            /\ mintingNftId = i /\ poll.active /\ poll.id = i
            /\ Has(lastSnapshot'.nfts, i)
            /\ Find(lastSnapshot'.nfts, i).is_mint = 2 )
          => (mintingNftId' # i /\ ~poll'.active)]_vars

\* the step in which, while the Authorize of item z awaits its signature, a
\* push snapshot showing item w minted is applied
PushShowsOtherMinted(z, w) ==
    /\ z # w
    /\ approvingNftId = z /\ IsPending(approve)
    /\ PushApplied
    /\ Has(lastSnapshot'.nfts, w)
    /\ Find(lastSnapshot'.nfts, w).is_mint = 2

\* C19: while the Authorize of item Z awaits its signature, a push snapshot
\* that shows another item W minted leaves W out of the record, leaves the
\* membership of every id the snapshot shows Eligible as it was, and leaves
\* the Authorize slot and the approve request as they were.
C19_PushLeavesPendingAlone ==
    [][\A z, w \in AllItems :
          PushShowsOtherMinted(z, w) =>
              /\ w \notin approvedNftIds'
              /\ \A j \in EligibleIds(lastSnapshot'.nfts) :
                     (j \in approvedNftIds') <=> (j \in approvedNftIds)
              /\ approvingNftId' = z
              /\ approve' = approve]_vars

\* items 1 and 3 were in the record and the Authorize of item 2 awaits its
\* signature; a snapshot that shows item 1 minted, item 2 in progress (so it
\* came after the click) and item 3 Eligible has removed item 1 and kept
\* item 3
C19_Witness ==
    /\ approvingNftId = 2 /\ IsPending(approve)
    /\ nfts = lastSnapshot.nfts
    /\ ~CanMint(2)
    /\ lastSnapshot.prior = {1, 3}
    /\ Has(lastSnapshot.nfts, 1) /\ Find(lastSnapshot.nfts, 1).is_mint = 2
    /\ 3 \in EligibleIds(lastSnapshot.nfts)
    /\ approvedNftIds = {3}

\* C20: once disconnect() has returned and until connect() or reconnect() is
\* called, no reconnect timer is pending and no socket is created.
C20_DisconnectStops ==
    /\ [](ws.stopped => \A k \in 1..MaxSockets : ws.sockets[k].timer # "pending")
    /\ [][(ws.stopped /\ ws'.stopped) => ws'.next = ws.next]_vars

\* the step in which onclose of socket k runs
OnCloseStep(k) ==
    ws.sockets[k].state # "closed" /\ ws'.sockets[k].state = "closed"

\* C21: when a socket closes after socketMaxRetries retries have been used up
\* with no open in between, no reconnect timer is set and the status exposed
\* is not the ordinary 'disconnected'.
C21_CeilingIsFailed ==
    [][\A k \in 1..MaxSockets :
          (OnCloseStep(k) /\ ws.retryCountRef >= socketMaxRetries) =>
              /\ \A j \in 1..MaxSockets : ws'.sockets[j].timer # "pending"
              /\ ws'.status # "disconnected"]_vars

\* the values the channel takes from its options (UseWebSocketOptions)
Configuration == {reconnectInterval, socketMaxRetries}

\* C22: when a socket closes with k retries counted and a retry left, the
\* reconnect timer is set to min(base * 2^k, cap) for a base and a cap that are
\* both options of the channel, and the count becomes k + 1.
C22_BackoffFromConfiguration ==
    [][\A k \in 1..MaxSockets :
          (OnCloseStep(k) /\ ws.retryCountRef < socketMaxRetries) =>
              /\ ws'.sockets[k].timer = "pending"
              /\ ws'.retryCountRef = ws.retryCountRef + 1
              /\ \E base \in Configuration, cap \in Configuration :
                    ws'.sockets[k].delay = Min(base * 2 ^ ws.retryCountRef, cap)]_vars

\* the step in which onopen of socket k runs
OnOpenStep(k) ==
    ws.sockets[k].state # "open" /\ ws'.sockets[k].state = "open"

\* the step in which connect() creates a socket
ConnectStep == ws'.next = ws.next + 1

\* C23: the retry count decreases only in a step in which a socket opens or in
\* which reconnect() runs (the one caller of connect() that writes the count),
\* and then to 0.
C23_ResetOnlyOnOpenOrReconnect ==
    [][ws'.retryCountRef < ws.retryCountRef =>
          /\ ws'.retryCountRef = 0
          /\ \/ \E k \in 1..MaxSockets : OnOpenStep(k)
             \/ ConnectStep]_vars

\* the step in which reconnect() runs
ReconnectStep == ws'.reconnects # ws.reconnects

\* exactly one socket is created in the step, it is the current one, and the
\* retry count is 0
OneFreshAttempt ==
    /\ ws'.retryCountRef = 0
    /\ ws'.next = ws.next + 1
    /\ ws'.wsRef = ws.next
    /\ ws'.sockets[ws.next].state = "connecting"
    /\ ws'.status = "connecting"

\* C24 as stated: every reconnect() call resets the retry count and starts
\* exactly one connection attempt.
C24_ReconnectRetriesOnce ==
    [][ReconnectStep => OneFreshAttempt]_vars

\* C24: while the channel is enabled, a reconnect() call resets the retry count
\* and starts exactly one connection attempt, whatever the sockets and timers
\* at hand; while it is disabled the call starts none.
C24_ReconnectRetriesOnceIfEnabled ==
    [][ReconnectStep =>
          /\ ws.enabled => OneFreshAttempt
          /\ ~ws.enabled => (ws'.next = ws.next /\ ws'.retryCountRef = 0)]_vars

\* reconnect() was called when six sockets had closed without opening and no
\* timer was left: it created the seventh
C24_Witness ==
    /\ ws.enabled /\ ws.reconnects = 1
    /\ ws.retryCountRef = 0
    /\ ws.wsRef = socketMaxRetries + 2
    /\ ws.sockets[socketMaxRetries + 2].state = "connecting"
    /\ \A k \in 1..(socketMaxRetries + 1) : ws.sockets[k].state = "closed"
    /\ ws.sockets[socketMaxRetries + 1].timer = "none"
    /\ \A k \in 1..socketMaxRetries : ws.sockets[k].timer = "fired"

\* the same instance with a consumer that calls reconnect() before the channel
\* is enabled, during or after its first connection attempt, or once the
\* retries are used up
NextReconnect ==
    \/ NextRetry
    \/ /\ ws.next <= 2 \/ ws.retryCountRef >= socketMaxRetries
       /\ CallReconnect(MaxSockets)

SpecReconnect == Init /\ [][NextReconnect]_vars

\* C25: the channel's status holds no item back: once a holder is connected
\* the item list has been requested, with the channel connected or not, so
\* that items can be acted on and converge by polling while the channel is
\* down.
C25_ChannelNeverBlocks ==
    address # NoAddress => hasRequestedInitialData

\* the Authorize flow of the holder a1 while the socket delivers every
\* envelope, the holder's updates and the others
NextEnvelope ==
    \/ NextAuthorize
    \/ \E m \in OtherEnvelopes : OnMessage(m)

SpecEnvelope == Init /\ [][NextEnvelope]_vars

\* the step in which onMessage is handed an envelope with another header
\* than the one before
HeardStep == ws'.heard # ws.heard

\* an envelope of a type NFTSection does not handle, or an update for another
\* holder than the one connected
NotForHolder(h) ==
    \/ h.type # "NFTUpdate"
    \/ h.data /\ toLowerCase(h.user_address) # toLowerCase(address)

\* C26: an envelope of an unrecognized type, or an update addressed to another
\* holder, changes nothing in the component: the list, the record, the slots
\* of the four actions, their hooks, timers and polls stay as they were.
C26_StrayEnvelopeDropped ==
    [][(HeardStep /\ NotForHolder(ws'.heard)) => UNCHANGED component]_vars

\* an update for another holder that shows item 1 as minted has been handed
\* over while the Authorize of item 1 was awaiting its signature and item 2
\* was in the record: item 1 is still listed as not requested
C26_Witness ==
    /\ address = "a1"
    /\ ws.heard = [type |-> "NFTUpdate", data |-> TRUE, user_address |-> "a2"]
    /\ approvingNftId = 1 /\ IsPending(approve)
    /\ approvedNftIds = {2}
    /\ 1 \in NotRequestedIds(nfts)

\* snapshot payloads over the holder's items, the one without a list included
PayloadsOf(S) == { p \in Payloads : p.nfts \in ListsOf(S) }

\* the payload p as the push path receives it, for the holder connected
AsPush(p) ==
    [type |-> "NFTUpdate", data |-> TRUE, user_address |-> address,
     has |-> p.has, nfts |-> p.nfts]

\* the payload p as the poll path receives it
AsPoll(p) == [kind |-> "ok", has |-> p.has, nfts |-> p.nfts]

SameListAndRecord(a, b) ==
    a.nfts = b.nfts /\ a.approvedNftIds = b.approvedNftIds

\* C27: in every state with a holder, for every payload and every watched
\* item, onMessage and the poller's fetchNFTs leave the same item list and the
\* same record.
C27_PushAndPollMergeAlike ==
    address # NoAddress =>
        \A p \in PayloadsOf(Items), i \in Items :
            SameListAndRecord(HandleMessage(Cur, AsPush(p)),
                              FetchNFTs(Cur, i, AsPoll(p), TRUE))

\* C28: in every state with a holder, for every payload and every watched
\* item, applying the payload by push and then by poll, or by poll and then by
\* push, leaves the list and the record that applying it once leaves, by
\* either path.
C28_SecondApplicationIsNoOp ==
    address # NoAddress =>
        \A p \in PayloadsOf(Items), i \in Items :
            LET pushed == HandleMessage(Cur, AsPush(p))
                polled == FetchNFTs(Cur, i, AsPoll(p), TRUE)
            IN  /\ SameListAndRecord(FetchNFTs(pushed, i, AsPoll(p), TRUE), pushed)
                /\ SameListAndRecord(HandleMessage(polled, AsPush(p)), polled)

\* the wallet connects and stays connected, with one connector or another;
\* its chain switches and the provider emits no chainChanged
NextChainPoll ==
    \/ \E c \in 1..NumConnectors : AccountChanges(TRUE, c)
    \/ \E k \in 1..MaxInstances, found \in BOOLEAN : GetProviderReturns(k, found)
    \/ \E k \in 1..MaxInstances, answered \in BOOLEAN : InitialRequestReturns(k, answered)
    \/ \E c \in 1..NumConnectors, hex \in ChainHex : SwitchChain(c, hex, FALSE)
    \/ \E k \in 1..MaxInstances : SendRequest(k, "poll")
    \/ \E k \in 1..MaxInstances, answered \in BOOLEAN : RequestReturns(k, answered)

SpecChainPoll == Init /\ [][NextChainPoll]_vars

\* the interval keeps ticking, a request that is sent again and again is
\* answered in the end, and every await of initializeProvider resumes
FairChainPoll ==
    \A k \in 1..MaxInstances :
        /\ WF_vars(SendRequest(k, "poll"))
        /\ SF_vars(RequestReturns(k, TRUE))
        /\ WF_vars(\E found \in BOOLEAN : GetProviderReturns(k, found))
        /\ WF_vars(\E answered \in BOOLEAN : InitialRequestReturns(k, answered))

SpecChainPollFair == SpecChainPoll /\ FairChainPoll

\* C29: if from some point on the wallet stays connected through connector c
\* and on the chain hex, with no chainChanged event ever delivered, then from
\* some point on the hook reports that chain.
C29_PollingFollowsWallet ==
    \A c \in 1..NumConnectors, hex \in ChainHex :
        <>[](chain.isConnected /\ chain.connector = c /\ chain.wallet[c] = hex)
            => <>[](chain.chainId = parseInt16(hex))

\* the step in which one more POST to /api/mint-failed is made for the item
\* of the Convert started last
RollbackStep ==
    action'.nft = action.nft /\ action'.rollbacks > action.rollbacks

\* C30: a rollback call for the item of the current Convert is made only when
\* its signing request has timed out, was rejected or reverted; and while the
\* eligibility of a newly started Convert is being checked its slot stays set.
C30_RollbackOnlyAfterFailedSigning ==
    /\ [][RollbackStep => action'.phase \in {"timeout", "rejected", "reverted"}]_vars
    /\ [](action.phase = "verifying" => mintingNftId = action.nft)

\* C31: while the Convert started last is being verified, is awaiting its
\* signature or is awaiting its receipt, no polling instance runs and no poll
\* fetch is in flight for its item.
C31_PollOnlyAfterOwnConfirmation ==
    action.phase \in {"verifying", "signing", "submitted"} =>
        ~((poll.active \/ pollFetch) /\ poll.id = action.nft)

\* C32: whenever an id is in the record, the allowance on the ledger covers
\* the conversion price.
C32_RecordBackedByAllowance ==
    approvedNftIds # {} => allowance >= mintPrice

\* the Authorize flow of a holder whose wallet switches account or
\* disconnects at any moment
NextHolder ==
    \/ Opening(Items)
    \/ Authorize(Items)
    \/ \E u \in {"a1", "a2"} : SwitchAccount(u)
    \/ DisconnectWallet

SpecHolder == Init /\ [][NextHolder]_vars

\* C33: a step that changes the holder address, to no address or to another
\* address, leaves the item list and the authorization record empty and
\* every pending-action slot free.
C33_AddressChangeClears ==
    [][address' # address =>
          /\ nfts' = {}
          /\ approvedNftIds' = {}
          /\ approvingNftId' = NULL
          /\ mintingNftId' = NULL
          /\ burningNftId' = NULL]_vars

\* sockets the instance created that are connecting or open
LiveSockets == { k \in 1..MaxSockets : ws.sockets[k].state \in {"connecting", "open"} }

\* reconnect timers set and neither fired nor cleared
PendingTimers == { k \in 1..MaxSockets : ws.sockets[k].timer = "pending" }

\* C34: the instance has at most one live socket and at most one pending
\* reconnect timer, and the close event of a socket that a later connect()
\* replaced leaves the reference to the newer socket and the status alone and
\* sets no timer.
C34_OneSocketOneTimer ==
    /\ [](Cardinality(LiveSockets) <= 1 /\ Cardinality(PendingTimers) <= 1)
    /\ [][\A k \in 1..MaxSockets :
             (OnCloseStep(k) /\ ws.wsRef # 0 /\ ws.wsRef # k) =>
                 /\ ws'.wsRef = ws.wsRef
                 /\ ws'.status = ws.status
                 /\ ws'.sockets[k].timer # "pending"]_vars

\* useWalletChainId with every change of the account, every answer of the
\* providers and every event they emit, in any order
NextChain ==
    \/ \E conn \in BOOLEAN, c \in 0..NumConnectors : AccountChanges(conn, c)
    \/ \E k \in 1..MaxInstances, found \in BOOLEAN : GetProviderReturns(k, found)
    \/ \E k \in 1..MaxInstances, answered \in BOOLEAN : InitialRequestReturns(k, answered)
    \/ \E c \in 1..NumConnectors, hex \in ChainHex, emits \in BOOLEAN : SwitchChain(c, hex, emits)
    \/ \E k \in 1..MaxInstances, kind \in {"poll", "accounts"} : SendRequest(k, kind)
    \/ \E k \in 1..MaxInstances, answered \in BOOLEAN : RequestReturns(k, answered)

SpecChain == Init /\ [][NextChain]_vars

\* a step in which effect instance k, already cleaned up, resumes after an await
SupersededCompletion(k) ==
    /\ ~chain.instances[k].isMounted
    /\ chain'.instances[k] # chain.instances[k]
    /\ chain'.isConnected = chain.isConnected
    /\ chain'.connector = chain.connector

\* C35: no completion of a superseded effect instance changes the chain id
\* or the stored provider; the chain id is undefined while the wallet is not
\* connected, and the stored provider is none or the current connector's.
C35_SupersededInstanceIsInert ==
    /\ [][\A k \in 1..MaxInstances :
             SupersededCompletion(k) =>
                 /\ chain'.chainId = chain.chainId
                 /\ chain'.providerRef = chain.providerRef]_vars
    /\ [](~chain.isConnected => chain.chainId = 0)
    /\ [](chain.providerRef \in {0, chain.connector})

\* the Swap form: the holder sets tolerances, quotes arrive, swaps are
\* submitted and the executor settles each with any delivered amount
NextSwap ==
    \/ \E v \in Tolerances : ConfirmSlippage(v)
    \/ \E q \in Quotes : QuoteArrives(q)
    \/ handleSwap
    \/ \E out \in Outputs : unlockCallback(out)

SpecSwap == Init /\ [][NextSwap]_vars

\* C36: a swap that executed delivered at least the quoted amount reduced by
\* the tolerance the holder had set when it was submitted, and no swap is
\* submitted with a minimum output of 0.
C36_ExecutesWithinTolerance ==
    /\ swap.pc = "executed" =>
           swap.amountOut >= minAmountOutOfTolerance(swap.quotedAmountOut, swap.tolerance)
    /\ swap.pc = "submitted" => swap.minAmountOut > 0

\* HukuNFT with mints for oneself and for another, transfers between users,
\* price updates, owner withdrawals and burns, in any order
NextHuku ==
    \/ \E sender \in Users, to \in Users : safeMint(sender, to)
    \/ \E from \in Users, to \in Users, i \in TokenIdsOfHuku : transferFrom(from, to, i)
    \/ \E p \in 0..MaxPrice : updateMintPrice(p)
    \/ \E amount \in 1..(MaxTokens * MaxPrice) : withdrawHakuToken(amount)
    \/ \E sender \in Users, i \in TokenIdsOfHuku : userBurn(sender, i)

SpecHuku == Init /\ [][NextHuku]_vars

\* the step in which user u, the owner of token i, burns it
BurnStep(u, i) ==
    huku.ownerOf[i] = u /\ huku'.ownerOf[i] = "none"

\* C37: a step in which the owner of a token burns it while the mint price is
\* positive pays a HakuToken refund to that user in the same step.
C37_BurnRefundsBurner ==
    [][\A u \in Users, i \in TokenIdsOfHuku :
          (BurnStep(u, i) /\ huku.mintPrice > 0) =>
              huku'.balanceOf[u] > huku.balanceOf[u]]_vars

\* SimpleAirdrop with every call of its owner, in any order
NextAirdrop ==
    \/ \E recipient \in Users, amount \in 1..MaxLimit : airdrop(recipient, amount)
    \/ \E maxAmount \in 1..MaxLimit : setMaxAirdropAmount(maxAmount)
    \/ \E maxTotal \in 1..MaxLimit : setMaxTotalPerAddress(maxTotal)
    \/ pauseAirdrop
    \/ resumeAirdrop

SpecAirdrop == Init /\ [][NextAirdrop]_vars

\* C38: for every recipient, totalAirdropped[recipient] is at most
\* maxTotalPerAddress.
C38_TotalWithinCap ==
    \A r \in Users :
        simpleAirdrop.totalAirdropped[r] <= simpleAirdrop.maxTotalPerAddress

====
